---- MODULE Spec2Model ----
(***************************************************************************)
(* A model of fpm-core's record store (src/src/db.rs) and of the project   *)
(* merge it rests on (src/src/project.rs).                                 *)
(*                                                                         *)
(* Conventions.                                                            *)
(*  - A Rust String whose characters matter (ids, names, URLs, commit      *)
(*    hashes) is a sequence of character codes, so that emptiness,         *)
(*    concatenation, substring search and the byte-wise order of BTreeMap  *)
(*    keys are what they are in the code.  Other strings are opaque.       *)
(*  - Option<T> is a set with at most one element: None is {} and Some(v)  *)
(*    is {v}.                                                              *)
(*  - HashSet<T> is a set; Vec<T> is a sequence.                           *)
(***************************************************************************)
EXTENDS Integers, Sequences, FiniteSets, TLC

VARIABLES
    \* ---- the record store (struct Database, db.rs:17-20) and its disk ----
    indexed_projects,   \* Database.indexed_projects: id -> SoftwareProject
    project_files,      \* the files under <db>/projects: path -> document
    call,               \* the last call made on the store, and how it ended
    ncalls,             \* number of calls made so far
    found,              \* the Vec the last search_projects call returned
    \* ---- the module pool ----
    modules,            \* Database.modules: Vec<SoftwareModule>
    module_files,       \* the files under <db>/modules: path -> document
    mlog,               \* the add_module calls made so far, oldest first
    \* ---- SoftwareProject::merge taken alone ----
    m_orig,             \* self before any merge
    m_self,             \* self, the record merged into
    m_other,            \* the first record merged in
    m_other2,           \* the second record merged in
    m_stage,            \* number of merge calls made
    m_outcome,          \* how the last merge call ended
    \* ---- utils::format_bytes taken alone ----
    fb_bytes,               \* the argument
    fb_i,                   \* i
    fb_approximated_bytes,  \* approximated_bytes
    fb_divisions,           \* number of divisions by 1024 made
    fb_pc,                  \* "loop", then "done" or "panic"
    fb_unit                 \* the unit in the returned string

store_vars  == <<indexed_projects, project_files, call, ncalls, found>>
module_vars == <<modules, module_files, mlog>>
merge_vars  == <<m_orig, m_self, m_other, m_other2, m_stage, m_outcome>>
format_vars == <<fb_bytes, fb_i, fb_approximated_bytes, fb_divisions, fb_pc, fb_unit>>
vars == <<store_vars, module_vars, merge_vars, format_vars>>

----------------------------------------------------------------------------
(* Option<T> *)
None == {}
Some(v) == {v}
IsSome(o) == o # {}
Unwrap(o) == CHOOSE v \in o : TRUE

(* Strings with structure: sequences of character codes. *)
EmptyStr == << >>
IdA == <<1>>
IdB == <<2>>
IdC == <<3>>
Url1 == <<8, 1>>
Url2 == <<8, 2>>
Name1 == <<9, 1>>
Name2 == <<9, 2>>

----------------------------------------------------------------------------
(* struct SoftwareProject, and the value #[derive(Default)] gives it. *)
SetFields == {"web_urls", "vcs_urls", "build_systems", "flatpak_app_manifests",
              "flatpak_module_manifests", "flatpak_sources_manifests", "tags"}
ScalarFields == {"description", "last_known_commit", "main_branch", "last_updated"}

DefaultProject ==
    [id |-> EmptyStr, vcs_url |-> EmptyStr, name |-> EmptyStr,
     description |-> None,
     web_urls |-> {}, vcs_urls |-> {},
     siblings |-> None,
     flatpak_app_manifests |-> {}, flatpak_module_manifests |-> {},
     flatpak_sources_manifests |-> {},
     tags |-> {}, build_systems |-> {},
     main_branch |-> None, last_known_commit |-> None, last_updated |-> None,
     root_hashes |-> << >>]

(* The set-valued fields of a project, as one function. *)
SetsOf(p) == [f \in SetFields |-> p[f]]

----------------------------------------------------------------------------
(* SoftwareProject::merge, project.rs:81-138, in the order of the code. *)

(* project.rs:94-114: every element of other's sets is inserted into self's. *)
merge_sets_overwrite(self, other) ==
    [self EXCEPT !.web_urls = other.web_urls,
                 !.vcs_urls = other.vcs_urls,
                 !.build_systems = other.build_systems,
                 !.flatpak_app_manifests = other.flatpak_app_manifests,
                 !.flatpak_module_manifests = other.flatpak_module_manifests,
                 !.flatpak_sources_manifests = other.flatpak_sources_manifests,
                 !.tags = other.tags]

merge_sets(self, other) ==
    [self EXCEPT !.web_urls = @ \cup other.web_urls,
                 !.vcs_urls = @ \cup other.vcs_urls,
                 !.build_systems = @ \cup other.build_systems,
                 !.flatpak_app_manifests = @ \cup other.flatpak_app_manifests,
                 !.flatpak_module_manifests = @ \cup other.flatpak_module_manifests,
                 !.flatpak_sources_manifests = @ \cup other.flatpak_sources_manifests,
                 !.tags = @ \cup other.tags]

(* project.rs:115-119: other's hashes are pushed only when self has none. *)
merge_root_hashes_always(self, other) ==
    [self EXCEPT !.root_hashes = @ \o other.root_hashes]

merge_root_hashes(self, other) ==
    IF Len(self.root_hashes) = 0
    THEN [self EXCEPT !.root_hashes = @ \o other.root_hashes]
    ELSE self

(* project.rs:120-124: other's siblings are adopted only when self has none. *)
merge_siblings_or_default(self, other) ==
    IF ~IsSome(self.siblings)
    THEN [self EXCEPT !.siblings = IF IsSome(other.siblings) THEN other.siblings
                                   ELSE Some({})]
    ELSE self

merge_siblings(self, other) ==
    IF IsSome(other.siblings) /\ ~IsSome(self.siblings)
    THEN [self EXCEPT !.siblings = other.siblings]
    ELSE self

(* project.rs:125-137: each scalar present on other overwrites self's. *)
merge_scalars_keep_most_recent(self, other) ==
    [self EXCEPT
       !.description = IF IsSome(other.description) THEN other.description ELSE @,
       !.last_known_commit =
           IF IsSome(other.last_known_commit) THEN other.last_known_commit ELSE @,
       !.main_branch = IF IsSome(other.main_branch) THEN other.main_branch ELSE @,
       !.last_updated =
           IF /\ IsSome(other.last_updated)
              /\ \/ ~IsSome(self.last_updated)
                 \/ Unwrap(self.last_updated)[2] <= Unwrap(other.last_updated)[2]
           THEN other.last_updated ELSE @]

merge_scalars(self, other) ==
    [self EXCEPT
       !.description = IF IsSome(other.description) THEN other.description ELSE @,
       !.last_known_commit =
           IF IsSome(other.last_known_commit) THEN other.last_known_commit ELSE @,
       !.main_branch = IF IsSome(other.main_branch) THEN other.main_branch ELSE @,
       !.last_updated = IF IsSome(other.last_updated) THEN other.last_updated ELSE @]

(* project.rs:94-137: the body of merge once both guards have passed. *)
merge_fields_with_name(self, other) ==
    [merge_scalars(
       merge_siblings(
         merge_root_hashes(
           merge_sets(self, other), other), other), other)
     EXCEPT !.name = other.name]

merge_fields(self, other) ==
    merge_scalars(
      merge_siblings(
        merge_root_hashes(
          merge_sets(self, other), other), other), other)

(* project.rs:81-138.  A panic leaves self as it was: both guards come before
   the first assignment. *)
merge_no_id_guard(self, other) ==
    IF self.vcs_url # other.vcs_url
    THEN [outcome |-> "vcs_mismatch", self |-> self]
    ELSE [outcome |-> "ok", self |-> merge_fields(self, other)]

merge(self, other) ==
    IF self.id # other.id
    THEN [outcome |-> "id_mismatch", self |-> self]
    ELSE IF self.vcs_url # other.vcs_url
    THEN [outcome |-> "vcs_mismatch", self |-> self]
    ELSE [outcome |-> "ok", self |-> merge_fields(self, other)]

----------------------------------------------------------------------------
(* SoftwareProject::get_root_signature, project.rs:157-163: the root hashes
   concatenated into one string. *)
RECURSIVE get_root_signature_of(_)
get_root_signature_of(hashes) ==
    IF hashes = << >> THEN << >>
    ELSE Head(hashes) \o get_root_signature_of(Tail(hashes))

get_root_signature(p) == get_root_signature_of(p.root_hashes)

(* The order of String, which is the key order of a BTreeMap<String, _>:
   byte-wise lexicographic, a proper prefix first. *)
StrLess(s, t) ==
    \E i \in 1..(Len(s) + 1) :
        /\ \A j \in 1..(i - 1) : j <= Len(t) /\ s[j] = t[j]
        /\ \/ i = Len(s) + 1 /\ Len(t) >= i
           \/ i <= Len(s) /\ i <= Len(t) /\ s[i] < t[i]

----------------------------------------------------------------------------
(* The record codec, as the serde attributes of SoftwareProject fix it
   (project.rs:9-79).  A document is a mapping from keys to values.  Fields
   marked skip_serializing_if = "Option::is_none" are left out when None; on
   decoding, a missing Option field is None and a missing field of any other
   type is a decode error.  A HashSet is written as a YAML sequence and read
   back as a set; the order of that sequence is not modelled. *)
OptionFields == ScalarFields \cup {"siblings"}
AllFields == DOMAIN DefaultProject

encode_project(p) ==
    [k \in {f \in AllFields : ~(f \in OptionFields /\ p[f] = None)} |->
        IF k \in OptionFields THEN Unwrap(p[k]) ELSE p[k]]

\* Whether serde_yaml::from_str yields a SoftwareProject.
decodes_as_project(doc) == (AllFields \ OptionFields) \subseteq DOMAIN doc

decode_project(doc) ==
    [f \in AllFields |->
        IF f \in OptionFields
        THEN (IF f \in DOMAIN doc THEN Some(doc[f]) ELSE None)
        ELSE doc[f]]

----------------------------------------------------------------------------
(* Paths under <db>/projects.  dir is the subdirectory ("" for the projects
   directory itself), stem the file name without its extension. *)
Path(dir, stem, ext) == [dir |-> dir, stem |-> stem, ext |-> ext]

\* format!("{}/{}.yaml", projects_path, &project.id), db.rs:325 and db.rs:350.
ProjectPath(id) == Path("", id, "yaml")

\* f with x mapped to v, whether or not x was in its domain: BTreeMap::insert,
\* and fs::write creating or overwriting a file.
Put(f, x, v) == [y \in (DOMAIN f) \cup {x} |-> IF y = x THEN v ELSE f[y]]

\* utils::get_all_paths, utils.rs:18-56: every file under the directory, at any
\* depth, except entries below a version-control or build-cache directory.
CacheDirs == {".git", ".flatpak-builder", ".flatpak-builder-out"}
get_all_paths(files) == {p \in DOMAIN files : p.dir \notin CacheDirs}

\* db.rs:215: the files get_all_projects goes on to read.
RecognisedPaths(files) == {p \in get_all_paths(files) : p.ext \in {"yaml", "yml"}}

\* Database::get_all_projects, db.rs:197-229: TRUE when some recognised file
\* does not decode, which panics.
get_all_projects_panics(files) ==
    \E p \in RecognisedPaths(files) : ~decodes_as_project(files[p])

\* The projects get_all_projects returns (a Vec, in directory order).
get_all_projects(files) == {decode_project(files[p]) : p \in RecognisedPaths(files)}

\* Database::get_indexed_projects, db.rs:48-54: the projects inserted by id,
\* in directory order.  When two files hold the same id the one read last
\* stays, and read_dir fixes no order: every such index is possible.
get_indexed_projects(files) ==
    LET all == get_all_projects(files)
        ids == {q.id : q \in all}
    IN  {idx \in [ids -> all] : \A i \in ids : idx[i].id = i}

----------------------------------------------------------------------------
(* The outcome of one store operation: the index and files it leaves, how it
   ended ("ok": it returned; "fatal": it panicked), and the fs::write calls it
   made, each with its path and whether it succeeded. *)
Outcome(idx, files, result, writes) ==
    [index |-> idx, files |-> files, result |-> result, writes |-> writes]

Fatal(idx, files, writes) == Outcome(idx, files, "fatal", writes)

\* fs::write(path, doc): the file is created or overwritten when the write
\* succeeds and left as it was when it fails (the code reports the error on
\* stderr and goes on, db.rs:333-342 and db.rs:356-365).
fs_write(files, path, doc, write_ok) == IF write_ok THEN Put(files, path, doc) ELSE files

(* Database::update_project, db.rs:318-343. *)
update_project_merge_first(idx, files, project, write_ok) ==
    IF Len(project.id) = 0 THEN Fatal(idx, files, {})
    ELSE IF project.id \notin DOMAIN idx THEN Fatal(idx, files, {})
    ELSE LET m == merge(idx[project.id], project)
             path == ProjectPath(project.id)
             merged == [idx EXCEPT ![project.id] = m.self]
         IN  IF m.outcome # "ok" THEN Fatal(idx, files, {})
             ELSE IF path \notin DOMAIN files THEN Fatal(merged, files, {})
             ELSE Outcome(merged,
                          fs_write(files, path, encode_project(m.self), write_ok),
                          "ok", {[path |-> path, ok |-> write_ok]})

update_project(idx, files, project, write_ok) ==
    IF Len(project.id) = 0 THEN Fatal(idx, files, {})                \* db.rs:320
    ELSE IF project.id \notin DOMAIN idx THEN Fatal(idx, files, {})  \* db.rs:323
    ELSE IF ProjectPath(project.id) \notin DOMAIN files
         THEN Fatal(idx, files, {})                                  \* db.rs:327
    ELSE LET m == merge(idx[project.id], project)                    \* db.rs:332
             path == ProjectPath(project.id)
         IN  IF m.outcome # "ok" THEN Fatal(idx, files, {})
             ELSE Outcome([idx EXCEPT ![project.id] = m.self],
                          fs_write(files, path, encode_project(m.self), write_ok),
                          "ok", {[path |-> path, ok |-> write_ok]})

(* Database::add_project, db.rs:345-367. *)
add_project(idx, files, project, write_ok) ==
    IF Len(project.id) = 0 THEN Fatal(idx, files, {})                \* db.rs:347
    ELSE IF ProjectPath(project.id) \in DOMAIN files
         THEN update_project(idx, files, project, write_ok)          \* db.rs:353
    ELSE LET path == ProjectPath(project.id)
         IN  Outcome(Put(idx, project.id, project),                  \* db.rs:366
                     fs_write(files, path, encode_project(project), write_ok),
                     "ok", {[path |-> path, ok |-> write_ok]})

(* Database::detect_siblings, db.rs:393-425. *)

\* db.rs:396-412: the ids of the fingerprinted projects, by root signature.
siblings_for_root_signature_with_empty(idx) ==
    LET sigs == {get_root_signature(idx[i]) : i \in DOMAIN idx}
    IN  [sig \in sigs |-> {i \in DOMAIN idx : get_root_signature(idx[i]) = sig}]

siblings_for_root_signature(idx) ==
    LET sigs == {get_root_signature(idx[i]) : i \in DOMAIN idx} \ {EmptyStr}
    IN  [sig \in sigs |-> {i \in DOMAIN idx : get_root_signature(idx[i]) = sig}]

\* The sequences that list each element of S once.
Perms(S) ==
    {q \in [1..Cardinality(S) -> S] : \A i, j \in DOMAIN q : q[i] = q[j] => i = j}

\* The strings of S in the order of BTreeMap keys.
SortedStrs(S) ==
    CHOOSE q \in Perms(S) : \A i, j \in DOMAIN q : i < j => StrLess(q[i], q[j])

\* db.rs:414-419: the order in which the second loop visits the projects it
\* updates: groups of two or more, by ascending signature; within a group the
\* iteration order of a HashSet, which is any order.
RECURSIVE visit_orders(_, _)
visit_orders(groups, sigs) ==
    IF sigs = << >> THEN {<< >>}
    ELSE {first \o rest : first \in Perms(groups[Head(sigs)]),
                          rest \in visit_orders(groups, Tail(sigs))}

detect_orders_with_singletons(idx) ==
    LET groups == siblings_for_root_signature(idx)
    IN  visit_orders(groups, SortedStrs(DOMAIN groups))

detect_orders(idx) ==
    LET groups == siblings_for_root_signature(idx)
        shared == {sig \in DOMAIN groups : Cardinality(groups[sig]) > 1}
    IN  visit_orders(groups, SortedStrs(shared))

\* db.rs:419-423: one update_project per member, in visiting order; a panic
\* in update_project ends the pass there.  failing holds the ids whose write
\* fails.
RECURSIVE detect_updates(_, _, _, _, _, _)
detect_updates(idx, files, groups, order, failing, writes) ==
    IF order = << >> THEN Outcome(idx, files, "ok", writes)
    ELSE LET id == Head(order)
             sig == get_root_signature(idx[id])
             project == [idx[id] EXCEPT !.siblings = Some(groups[sig])]
             r == update_project(idx, files, project, id \notin failing)
         IN  IF r.result = "fatal"
             THEN Fatal(r.index, r.files, writes \cup r.writes)
             ELSE detect_updates(r.index, r.files, groups, Tail(order), failing,
                                 writes \cup r.writes)

detect_siblings(idx, files, order, failing) ==
    detect_updates(idx, files, siblings_for_root_signature(idx), order, failing, {})

(* Database::search_projects, db.rs:369-380. *)

\* str::contains: t occurs in s as a contiguous run of characters.
Contains(s, t) ==
    \E i \in 0..(Len(s) - Len(t)) : SubSeq(s, i + 1, i + Len(t)) = t

\* db.rs:372-377: what one project of the loop pushes onto the Vec.
search_projects_pushes(project, search_term) ==
    (IF Contains(project.name, search_term) THEN <<project>> ELSE << >>)
      \o (IF Contains(project.vcs_url, search_term) THEN <<project>> ELSE << >>)

\* db.rs:371: the loop over the BTreeMap, in ascending key order.
RECURSIVE search_projects_from(_, _, _)
search_projects_from(idx, ids, search_term) ==
    IF ids = << >> THEN << >>
    ELSE search_projects_pushes(idx[Head(ids)], search_term)
           \o search_projects_from(idx, Tail(ids), search_term)

search_projects(idx, search_term) ==
    search_projects_from(idx, SortedStrs(DOMAIN idx), search_term)

----------------------------------------------------------------------------
(* Values at rest for the parts of the state a specification does not use. *)
NoArg == << >>
IdleCall == [op |-> "none", arg |-> NoArg, result |-> "ok", writes |-> {}]
IdleStore ==
    /\ indexed_projects = << >>
    /\ project_files = << >>
    /\ call = IdleCall
    /\ ncalls = 0
    /\ found = << >>
IdleModules ==
    /\ modules = << >>
    /\ module_files = << >>
    /\ mlog = << >>
IdleMerge ==
    /\ m_orig = NoArg
    /\ m_self = NoArg
    /\ m_other = NoArg
    /\ m_other2 = NoArg
    /\ m_stage = 0
    /\ m_outcome = "none"
IdleFormat ==
    /\ fb_bytes = << >>
    /\ fb_i = 0
    /\ fb_approximated_bytes = << >>
    /\ fb_divisions = 0
    /\ fb_pc = "idle"
    /\ fb_unit = ""

----------------------------------------------------------------------------
(* Generators of project records, for the inputs of the specifications. *)

\* Bound: the elements a set-valued field draws from are 1..MaxElems.
MaxElems == 2

Hash1 == <<1>>
Hash2 == <<2>>
Hash12 == <<1, 2>>

\* An element of set field f; a VCS URL is a string with structure.
SetElem(f, e) == IF f = "vcs_urls" THEN <<8, e>> ELSE <<f, e>>

Features == SetFields \cup ScalarFields \cup {"siblings", "root_hashes"}

\* The project in which exactly the fields of F are non-empty / set.
ShapeProject(F) ==
    [id |-> IdA, vcs_url |-> Url1, name |-> Name1,
     description |-> IF "description" \in F THEN Some(<<"description", 1>>) ELSE None,
     web_urls |-> IF "web_urls" \in F THEN {SetElem("web_urls", 1)} ELSE {},
     vcs_urls |-> IF "vcs_urls" \in F THEN {SetElem("vcs_urls", 1)} ELSE {},
     siblings |-> IF "siblings" \in F THEN Some({IdA, IdB}) ELSE None,
     flatpak_app_manifests |->
         IF "flatpak_app_manifests" \in F
         THEN {SetElem("flatpak_app_manifests", 1)} ELSE {},
     flatpak_module_manifests |->
         IF "flatpak_module_manifests" \in F
         THEN {SetElem("flatpak_module_manifests", 1)} ELSE {},
     flatpak_sources_manifests |->
         IF "flatpak_sources_manifests" \in F
         THEN {SetElem("flatpak_sources_manifests", 1)} ELSE {},
     tags |-> IF "tags" \in F THEN {SetElem("tags", 1)} ELSE {},
     build_systems |->
         IF "build_systems" \in F THEN {SetElem("build_systems", 1)} ELSE {},
     main_branch |-> IF "main_branch" \in F THEN Some(<<"main_branch", 1>>) ELSE None,
     last_known_commit |->
         IF "last_known_commit" \in F THEN Some(<<"last_known_commit", 1>>) ELSE None,
     last_updated |->
         IF "last_updated" \in F THEN Some(<<"last_updated", 1>>) ELSE None,
     root_hashes |-> IF "root_hashes" \in F THEN <<Hash1, Hash2>> ELSE << >>]

\* The project whose set fields all hold the elements S, and whose scalar
\* field f is Some(<<f, O[f]>>) when O[f] # 0.
VarProject(id, vcs, name, S, O, rh, sib) ==
    [id |-> id, vcs_url |-> vcs, name |-> name,
     description |->
         IF O["description"] # 0 THEN Some(<<"description", O["description"]>>)
         ELSE None,
     web_urls |-> {SetElem("web_urls", e) : e \in S},
     vcs_urls |-> {SetElem("vcs_urls", e) : e \in S},
     siblings |-> sib,
     flatpak_app_manifests |-> {SetElem("flatpak_app_manifests", e) : e \in S},
     flatpak_module_manifests |-> {SetElem("flatpak_module_manifests", e) : e \in S},
     flatpak_sources_manifests |-> {SetElem("flatpak_sources_manifests", e) : e \in S},
     tags |-> {SetElem("tags", e) : e \in S},
     build_systems |-> {SetElem("build_systems", e) : e \in S},
     main_branch |->
         IF O["main_branch"] # 0 THEN Some(<<"main_branch", O["main_branch"]>>)
         ELSE None,
     last_known_commit |->
         IF O["last_known_commit"] # 0
         THEN Some(<<"last_known_commit", O["last_known_commit"]>>) ELSE None,
     last_updated |->
         IF O["last_updated"] # 0 THEN Some(<<"last_updated", O["last_updated"]>>)
         ELSE None,
     root_hashes |-> rh]

NoScalars == [f \in ScalarFields |-> 0]
AllScalars(v) == [f \in ScalarFields |-> v]

----------------------------------------------------------------------------
(* The record store: the records it is given and the disks it starts on. *)

\* Bound: the number of calls made on a loaded store.
MaxCalls == 3

InA1 == VarProject(IdA, Url1, Name1, {1}, AllScalars(1), <<Hash1, Hash2>>, None)
InA2 == VarProject(IdA, Url1, Name1, {2}, AllScalars(2), << >>, Some({}))
InA3 == VarProject(IdA, Url2, Name1, {}, NoScalars, << >>, None)
InB0 == VarProject(IdB, Url1, Name2, {1}, NoScalars, <<Hash1, Hash2>>, None)
InB1 == VarProject(IdB, Url1, Name2, {1}, NoScalars, <<Hash12>>, None)
InB2 == VarProject(IdB, Url1, Name2, {2}, AllScalars(2), <<Hash2, Hash1>>, None)
InC1 == VarProject(IdC, Url1, Name1, {1}, NoScalars, <<Hash1, Hash2>>, None)
InC2 == VarProject(IdC, Url1, Name1, {}, NoScalars, << >>, None)
InE  == VarProject(EmptyStr, Url1, Name1, {1}, NoScalars, <<Hash1>>, None)

\* The records add_project and update_project are called with.
InputProjects == {InA1, InA2, InA3, InB1, InB2, InC1, InC2, InE}

\* A file cut short: it lacks required fields and does not decode.
TruncatedDoc == [id |-> IdA]

WithSiblings(p, ids) == [p EXCEPT !.siblings = Some(ids)]

\* The contents of <db>/projects when the store is opened.
InitDisks ==
    { << >>,
      \* one project, written by an earlier add_project
      Put(<< >>, ProjectPath(IdA), encode_project(InA1)),
      \* two projects an earlier detection pass made siblings
      Put(Put(<< >>, ProjectPath(IdA), encode_project(WithSiblings(InA1, {IdA, IdB}))),
          ProjectPath(IdB), encode_project(WithSiblings(InB0, {IdA, IdB}))),
      \* three projects, two of one ancestry, no pass run yet
      Put(Put(Put(<< >>, ProjectPath(IdA), encode_project(InA1)),
              ProjectPath(IdB), encode_project(InB2)),
          ProjectPath(IdC), encode_project(InC1)),
      \* a record under the other recognised extension
      Put(<< >>, Path("", IdA, "yml"), encode_project(InA1)),
      \* a record in a subdirectory, beside a file that is no record
      Put(Put(<< >>, Path("sub", IdA, "yaml"), encode_project(InA1)),
          Path("", IdB, "txt"), TruncatedDoc),
      \* two files holding the same id
      Put(Put(<< >>, ProjectPath(IdA), encode_project(InA1)),
          Path("", IdA, "yml"), encode_project(InA2)),
      \* a copy of one project's file under another id's name
      Put(Put(<< >>, ProjectPath(IdA), encode_project(InA1)),
          ProjectPath(IdC), encode_project(InA1)),
      \* a record file that does not decode
      Put(<< >>, ProjectPath(IdA), TruncatedDoc) }

Call(op, arg, result, writes) ==
    [op |-> op, arg |-> arg, result |-> result, writes |-> writes]

(* Database::get_database, db.rs:22-46: the store as load leaves it.  A project
   file that does not decode panics and no store is produced. *)
Init ==
    /\ project_files \in InitDisks
    /\ IF get_all_projects_panics(project_files)
       THEN /\ indexed_projects = << >>
            /\ call = Call("load", NoArg, "fatal", {})
       ELSE /\ indexed_projects \in get_indexed_projects(project_files)
            /\ call = Call("load", NoArg, "ok", {})
    /\ ncalls = 0
    /\ found = << >>
    /\ IdleModules
    /\ IdleMerge
    /\ IdleFormat

\* A panic ends the process: calls are made only while none has panicked.
CanCall == call.result = "ok" /\ ncalls < MaxCalls

AddProject ==
    /\ CanCall
    /\ \E project \in InputProjects, write_ok \in BOOLEAN :
         LET r == add_project(indexed_projects, project_files, project, write_ok) IN
           /\ indexed_projects' = r.index
           /\ project_files' = r.files
           /\ call' = Call("add_project", project, r.result, r.writes)
    /\ ncalls' = ncalls + 1
    /\ UNCHANGED <<found, module_vars, merge_vars, format_vars>>

UpdateProject ==
    /\ CanCall
    /\ \E project \in InputProjects, write_ok \in BOOLEAN :
         LET r == update_project(indexed_projects, project_files, project, write_ok) IN
           /\ indexed_projects' = r.index
           /\ project_files' = r.files
           /\ call' = Call("update_project", project, r.result, r.writes)
    /\ ncalls' = ncalls + 1
    /\ UNCHANGED <<found, module_vars, merge_vars, format_vars>>

DetectSiblings ==
    /\ CanCall
    /\ \E order \in detect_orders(indexed_projects) :
       \E failing \in SUBSET {order[i] : i \in DOMAIN order} :
         LET r == detect_siblings(indexed_projects, project_files, order, failing) IN
           /\ indexed_projects' = r.index
           /\ project_files' = r.files
           /\ call' = Call("detect_siblings", order, r.result, r.writes)
    /\ ncalls' = ncalls + 1
    /\ UNCHANGED <<found, module_vars, merge_vars, format_vars>>

Next == AddProject \/ UpdateProject \/ DetectSiblings

Spec == Init /\ [][Next]_vars

----------------------------------------------------------------------------
(* Claims about the record store, checked under Spec. *)

\* The step is a call of op.
IsCall(op) == ncalls' = ncalls + 1 /\ call'.op = op

\* C1 -- sibling symmetry: once detect_siblings has completed, every id in a
\* project's non-empty siblings set is a project of the index whose own
\* siblings set contains that project's id and is the identical set.
C1_SiblingSymmetry ==
    (call.op = "detect_siblings" /\ call.result = "ok")
        => \A a \in DOMAIN indexed_projects :
             LET sa == indexed_projects[a].siblings IN
               (IsSome(sa) /\ Unwrap(sa) # {})
                 => \A b \in Unwrap(sa) :
                      /\ b \in DOMAIN indexed_projects
                      /\ IsSome(indexed_projects[b].siblings)
                      /\ a \in Unwrap(indexed_projects[b].siblings)
                      /\ indexed_projects[b].siblings = sa

\* C2 -- the set-valued fields of a stored project only grow: in every step,
\* each set field of each project of the index contains what it held before.
C2_SetFieldsGrow ==
    [][\A id \in (DOMAIN indexed_projects) \cap (DOMAIN indexed_projects') :
         \A f \in SetFields :
            indexed_projects[id][f] \subseteq indexed_projects'[id][f]]_vars

\* C3 -- add_project for a non-empty id whose file exists degrades to
\* update_project: when it returns, the record in memory and the record in
\* the file are both the merge of the record stored before with the argument.
C3_AddDegradesToUpdate ==
    [][(/\ IsCall("add_project")
        /\ Len(call'.arg.id) > 0
        /\ ProjectPath(call'.arg.id) \in DOMAIN project_files
        /\ call'.result = "ok")
          => LET id == call'.arg.id
                 merged == merge(indexed_projects[id], call'.arg).self
             IN  /\ indexed_projects'[id] = merged
                 /\ decode_project(project_files'[ProjectPath(id)]) = merged]_vars

\* C4 -- the index is a rebuildable cache of the files: as long as no call has
\* ended in a fatal error, the index is one that load would rebuild from the
\* project files as they are, and after update_project the file of the updated
\* id holds the merged in-memory record.
C4_IndexIsCacheOfFiles ==
    call.result = "ok"
        => /\ ~get_all_projects_panics(project_files)
           /\ indexed_projects \in get_indexed_projects(project_files)
           /\ call.op = "update_project"
                => decode_project(project_files[ProjectPath(call.arg.id)])
                     = indexed_projects[call.arg.id]

\* C7 -- fatal project operations change nothing: add_project or
\* update_project with an empty id, and update_project for an id that is not
\* in the index or has no file, panic; the index and every project file are as
\* before and no write was made.
C7_FatalChangesNothing ==
    [][(\/ /\ (IsCall("add_project") \/ IsCall("update_project"))
           /\ Len(call'.arg.id) = 0
        \/ /\ IsCall("update_project")
           /\ \/ call'.arg.id \notin DOMAIN indexed_projects
              \/ ProjectPath(call'.arg.id) \notin DOMAIN project_files)
          => /\ call'.result = "fatal"
             /\ indexed_projects' = indexed_projects
             /\ project_files' = project_files
             /\ call'.writes = {}]_vars

\* C7 witness: update_project has panicked for an id that is in the index but
\* has no file, with a record whose merge would have changed the stored one.
C7_Witness ==
    /\ call.op = "update_project"
    /\ call.result = "fatal"
    /\ call.arg.id \in DOMAIN indexed_projects
    /\ ProjectPath(call.arg.id) \notin DOMAIN project_files
    /\ LET m == merge(indexed_projects[call.arg.id], call.arg) IN
         m.outcome = "ok" /\ m.self # indexed_projects[call.arg.id]

\* The elements of a sequence.
Elems(q) == {q[i] : i \in DOMAIN q}

\* C11 -- siblings is populated only by the detection pass: in a call of
\* add_project or update_project, a stored project whose siblings is unset
\* keeps it unset, whatever the incoming record carries.
C11_SiblingsOnlyByDetector ==
    [][(IsCall("add_project") \/ IsCall("update_project"))
          => \A id \in (DOMAIN indexed_projects) \cap (DOMAIN indexed_projects') :
               indexed_projects[id].siblings = None
                 => indexed_projects'[id].siblings = None]_vars

\* C11, amended -- in a call of add_project or update_project, a stored
\* project whose siblings is unset either keeps it unset or takes the siblings
\* value the incoming record of its id carries; with an incoming record whose
\* siblings is unset it stays unset.
C11_SiblingsOnlyFromIncoming ==
    [][(IsCall("add_project") \/ IsCall("update_project"))
          => \A id \in (DOMAIN indexed_projects) \cap (DOMAIN indexed_projects') :
               indexed_projects[id].siblings = None
                 => \/ indexed_projects'[id].siblings = None
                    \/ /\ call'.arg.id = id
                       /\ IsSome(call'.arg.siblings)
                       /\ indexed_projects'[id].siblings = call'.arg.siblings]_vars

\* C11 witness: update_project or add_project has merged a record carrying a
\* siblings value into a fingerprinted stored record, which now carries it.
C11_Witness ==
    /\ call.op \in {"add_project", "update_project"}
    /\ call.result = "ok"
    /\ IsSome(call.arg.siblings)
    /\ call.arg.root_hashes = << >>
    /\ indexed_projects[call.arg.id].root_hashes # << >>
    /\ indexed_projects[call.arg.id].siblings = call.arg.siblings

\* The project id shares its root signature with no other project of idx.
IsSingleton(idx, id) ==
    \A other \in (DOMAIN idx) \ {id} :
        get_root_signature(idx[other]) # get_root_signature(idx[id])

\* C12 -- singleton exclusion: in a detect_siblings pass, a project whose root
\* signature no other project of the index shares is not visited (no
\* update_project is called for it, so no write is made to its file) and its
\* siblings field, and its file, are as before the pass.
C12_SingletonExclusion ==
    [][IsCall("detect_siblings")
          => \A id \in DOMAIN indexed_projects :
               IsSingleton(indexed_projects, id)
                 => /\ id \notin Elems(call'.arg)
                    /\ \A w \in call'.writes : w.path # ProjectPath(id)
                    /\ indexed_projects'[id].siblings = indexed_projects[id].siblings
                    /\ \A p \in DOMAIN project_files :
                         p.stem = id => /\ p \in DOMAIN project_files'
                                        /\ project_files'[p] = project_files[p]]_vars

\* C12 witness: a pass has updated a group while the index also held a
\* fingerprinted project that shares its signature with no other.
C12_Witness ==
    /\ call.op = "detect_siblings"
    /\ call.result = "ok"
    /\ call.writes # {}
    /\ \E id \in DOMAIN indexed_projects :
         /\ IsSingleton(indexed_projects, id)
         /\ get_root_signature(indexed_projects[id]) # EmptyStr
         /\ id \notin Elems(call.arg)
         /\ indexed_projects[id].siblings = None

\* The ids of idx whose root signature is that of id.
GroupOf(idx, id) ==
    {other \in DOMAIN idx : get_root_signature(idx[other]) = get_root_signature(idx[id])}

\* id belongs to a group of two or more projects of one non-empty signature.
InSharedGroup(idx, id) ==
    /\ get_root_signature(idx[id]) # EmptyStr
    /\ Cardinality(GroupOf(idx, id)) >= 2

\* C13 -- group assignment includes self: when detect_siblings runs on a store
\* in which no project has siblings set, every project of a group of two or
\* more projects with the same non-empty root signature ends with siblings
\* equal to the set of all the group's ids, its own included, in memory and
\* in its file.
C13_GroupAssignmentIncludesSelf ==
    [][(/\ IsCall("detect_siblings")
        /\ \A id \in DOMAIN indexed_projects : indexed_projects[id].siblings = None)
          => \A id \in DOMAIN indexed_projects :
               InSharedGroup(indexed_projects, id)
                 => LET group == GroupOf(indexed_projects, id) IN
                      /\ id \in group
                      /\ indexed_projects'[id].siblings = Some(group)
                      /\ ProjectPath(id) \in DOMAIN project_files'
                      /\ decode_project(project_files'[ProjectPath(id)]).siblings
                            = Some(group)]_vars

\* C14 -- re-running the detection pass is idempotent: a detect_siblings pass
\* made right after a completed pass leaves the index and every project file
\* as the first pass left them.
C14_DetectIdempotent ==
    [][(/\ call.op = "detect_siblings"
        /\ call.result = "ok"
        /\ IsCall("detect_siblings"))
          => /\ call'.result = "ok"
             /\ indexed_projects' = indexed_projects
             /\ project_files' = project_files]_vars

\* p is at path in files, as it was or not at all.
SameFile(files1, files2, path) ==
    IF path \in DOMAIN files1
    THEN path \in DOMAIN files2 /\ files2[path] = files1[path]
    ELSE path \notin DOMAIN files2

\* C15 -- partial failure of detection: when update_project panics for a
\* project of the pass because its file is missing, the pass has aborted and
\* the projects visited before it have their siblings set and persisted (the
\* file holds the in-memory record), the failing project's record is unchanged
\* in memory and no file was written for it, and every project later in the
\* visiting order is untouched in memory and on disk.
C15_PartialFailureState ==
    [][(IsCall("detect_siblings") /\ call'.result = "fatal")
          => LET order == call'.arg IN
             \E k \in DOMAIN order :
               /\ ProjectPath(order[k]) \notin DOMAIN project_files
               /\ \A i \in 1..(k - 1) :
                    LET path == ProjectPath(order[i]) IN
                      /\ IsSome(indexed_projects'[order[i]].siblings)
                      /\ path \in DOMAIN project_files'
                      /\ decode_project(project_files'[path])
                           = indexed_projects'[order[i]]
               /\ indexed_projects'[order[k]] = indexed_projects[order[k]]
               /\ ProjectPath(order[k]) \notin DOMAIN project_files'
               /\ \A w \in call'.writes : w.path # ProjectPath(order[k])
               /\ \A i \in (k + 1)..Len(order) :
                    /\ indexed_projects'[order[i]] = indexed_projects[order[i]]
                    /\ SameFile(project_files, project_files', ProjectPath(order[i]))
                    /\ \A w \in call'.writes : w.path # ProjectPath(order[i])]_vars

\* C18 -- root hashes are set once: in every step, a project of the index
\* whose root_hashes is non-empty keeps exactly that sequence.
C18_RootHashesSetOnce ==
    [][\A id \in (DOMAIN indexed_projects) \cap (DOMAIN indexed_projects') :
         indexed_projects[id].root_hashes # << >>
           => indexed_projects'[id].root_hashes = indexed_projects[id].root_hashes]_vars

\* C20 -- order-sensitive grouping: when a detect_siblings pass gives a
\* project a siblings set, every other project named in it has the same
\* root_hashes sequence, element for element.
C20_GroupingBySequence ==
    [][IsCall("detect_siblings")
          => \A a \in DOMAIN indexed_projects :
               (/\ indexed_projects'[a].siblings # indexed_projects[a].siblings
                /\ IsSome(indexed_projects'[a].siblings))
                 => \A b \in Unwrap(indexed_projects'[a].siblings) \ {a} :
                      /\ b \in DOMAIN indexed_projects
                      /\ indexed_projects[b].root_hashes
                           = indexed_projects[a].root_hashes]_vars

\* C21 -- projects that are not fingerprinted are excluded from detection: in
\* a detect_siblings pass, a project whose root_hashes is empty is not visited,
\* is in no siblings set the pass assigns, and its in-memory record and its
\* file are as before the pass.
C21_UnfingerprintedExcluded ==
    [][IsCall("detect_siblings")
          => \A id \in DOMAIN indexed_projects :
               indexed_projects[id].root_hashes = << >>
                 => /\ id \notin Elems(call'.arg)
                    /\ \A a \in DOMAIN indexed_projects :
                         (/\ indexed_projects'[a].siblings # indexed_projects[a].siblings
                          /\ IsSome(indexed_projects'[a].siblings))
                           => id \notin Unwrap(indexed_projects'[a].siblings)
                    /\ indexed_projects'[id] = indexed_projects[id]
                    /\ \A w \in call'.writes : w.path # ProjectPath(id)
                    /\ \A p \in DOMAIN project_files :
                         p.stem = id => SameFile(project_files, project_files', p)]_vars

\* C21 witness: a pass has updated a group while the index also held a
\* project with no root hashes, which it did not visit.
C21_Witness ==
    /\ call.op = "detect_siblings"
    /\ call.result = "ok"
    /\ call.writes # {}
    /\ \E id \in DOMAIN indexed_projects :
         /\ indexed_projects[id].root_hashes = << >>
         /\ id \notin Elems(call.arg)
         /\ indexed_projects[id].siblings = None

\* C25 -- every project load places in the index can be updated: on a store
\* just loaded, update_project with a record of an indexed id and of its
\* vcs_url returns, and add_project with such a record takes the merge path;
\* either way the index then holds the merge of the stored record with it.
C25_LoadedProjectsCanBeUpdated ==
    [][(/\ call.op = "load"
        /\ IsCall("update_project") \/ IsCall("add_project")
        /\ call'.arg.id \in DOMAIN indexed_projects
        /\ call'.arg.vcs_url = indexed_projects[call'.arg.id].vcs_url)
          => /\ call'.result = "ok"
             /\ indexed_projects'[call'.arg.id]
                  = merge(indexed_projects[call'.arg.id], call'.arg).self]_vars

----------------------------------------------------------------------------
(* The module pool: Database.modules and the files under <db>/modules. *)

\* Bound: the number of add_module calls made on a loaded store.
MaxModuleCalls == 3
\* Bound: a FlatpakModule's content, beside its name, is one of 0..MaxPayload.
MaxPayload == 2
\* Bound: the number of values get_module_hash takes.  DefaultHasher yields
\* 64 bits of a content that has more, so distinct modules can share a hash;
\* the model keeps that by hashing into 0..HashRange-1.
HashRange == 2

\* flatpak_rs::module::FlatpakModule, a value of another crate: its name and
\* the rest of its content.
FlatpakModule(name, payload) == [name |-> name, payload |-> payload]

\* utils::get_module_hash, utils.rs:11-16: the module's Hash fed to a
\* DefaultHasher, the 64-bit result in decimal.
get_module_hash(module) == (Len(module.name) + module.payload) % HashRange

\* struct SoftwareModule, module.rs:3-11; add_module leaves project_id at its
\* default, None (db.rs:290-291).
SoftwareModule(project_id, flatpak_module) ==
    [project_id |-> project_id, flatpak_module |-> flatpak_module]

\* format!("{}/{}.yaml", modules_path, module_hash), db.rs:294.
ModulePath(hash) == Path("", hash, "yaml")

\* serde_yaml::to_string(&new_software_module), db.rs:304: both fields are
\* written, project_id as null when None.
encode_module(sm) ==
    [project_id |-> IF IsSome(sm.project_id) THEN Unwrap(sm.project_id) ELSE "null",
     flatpak_module |-> sm.flatpak_module]

decodes_as_module(doc) == {"project_id", "flatpak_module"} \subseteq DOMAIN doc

decode_module(doc) ==
    [project_id |-> IF doc.project_id = "null" THEN None ELSE Some(doc.project_id),
     flatpak_module |-> doc.flatpak_module]

\* Database::get_all_modules, db.rs:231-269: the recognised files that decode,
\* in directory order (any order); a file that does not decode is skipped.
get_all_modules_stop_at_failure(files) ==
    LET good == {p \in RecognisedPaths(files) : decodes_as_module(files[p])}
    IN  IF good # RecognisedPaths(files) THEN {<< >>}
        ELSE {[i \in DOMAIN q |-> decode_module(files[q[i]])] : q \in Perms(good)}

get_all_modules(files) ==
    LET good == {p \in RecognisedPaths(files) : decodes_as_module(files[p])}
    IN  {[i \in DOMAIN q |-> decode_module(files[q[i]])] : q \in Perms(good)}

\* The outcome of add_module: the collection and files it leaves, and its
\* fs::write: "none" when it made none, else "ok" or "failed".
ModuleOutcome(mods, files, write) == [modules |-> mods, files |-> files, write |-> write]

(* Database::add_module, db.rs:288-316. *)
add_module_push_always(mods, files, new_module, write_ok) ==
    LET new_software_module == SoftwareModule(None, new_module)
        path == ModulePath(get_module_hash(new_module))
    IN  IF path \in DOMAIN files
        THEN ModuleOutcome(Append(mods, new_software_module), files, "none")
        ELSE ModuleOutcome(Append(mods, new_software_module),
                           fs_write(files, path, encode_module(new_software_module),
                                    write_ok),
                           IF write_ok THEN "ok" ELSE "failed")

add_module(mods, files, new_module, write_ok) ==
    LET new_software_module == SoftwareModule(None, new_module)
        path == ModulePath(get_module_hash(new_module))
    IN  IF path \in DOMAIN files
        THEN ModuleOutcome(mods, files, "none")                      \* db.rs:297-301
        ELSE ModuleOutcome(Append(mods, new_software_module),        \* db.rs:315
                           fs_write(files, path, encode_module(new_software_module),
                                    write_ok),
                           IF write_ok THEN "ok" ELSE "failed")

\* The modules add_module is called with.
InputModules == {FlatpakModule(Name1, payload) : payload \in 0..MaxPayload}

\* The contents of <db>/modules when the store is opened.
InitModuleDisks ==
    { << >>,
      \* one module, written by an earlier add_module
      Put(<< >>, ModulePath(get_module_hash(FlatpakModule(Name1, 0))),
          encode_module(SoftwareModule(None, FlatpakModule(Name1, 0)))),
      \* a module file not named by its hash, and a file that does not decode
      Put(Put(<< >>, Path("", 7, "yml"),
              encode_module(SoftwareModule(Some(IdA), FlatpakModule(Name1, 1)))),
          Path("", 9, "yaml"), [project_id |-> "null"]) }

\* The number of entries of the collection whose module hashes to hash.
EntriesFor(mods, hash) ==
    Cardinality({i \in DOMAIN mods : get_module_hash(mods[i].flatpak_module) = hash})

InitModules ==
    /\ module_files \in InitModuleDisks
    /\ modules \in get_all_modules(module_files)
    /\ mlog = << >>
    /\ IdleStore
    /\ IdleMerge
    /\ IdleFormat

AddModule ==
    /\ Len(mlog) < MaxModuleCalls
    /\ \E new_module \in InputModules, write_ok \in BOOLEAN :
         LET r == add_module(modules, module_files, new_module, write_ok)
             hash == get_module_hash(new_module)
         IN  /\ modules' = r.modules
             /\ module_files' = r.files
             /\ mlog' = Append(mlog, [arg |-> new_module,
                                      file_existed |-> ModulePath(hash) \in DOMAIN module_files,
                                      entries_before |-> EntriesFor(modules, hash),
                                      write |-> r.write])
    /\ UNCHANGED <<store_vars, merge_vars, format_vars>>

NextModules == AddModule

SpecModules == InitModules /\ [][NextModules]_vars

----------------------------------------------------------------------------
(* Claims about the module pool, checked under SpecModules. *)

\* C5 -- content-addressed idempotence: after two add_module calls in a row
\* with the same module, the first made on a store with no file and no entry
\* for its fingerprint, there is exactly one file and exactly one in-memory
\* entry for that fingerprint.
C5_AddModuleTwiceStoresOne ==
    \A i \in 1..(Len(mlog) - 1) :
        (/\ i + 1 = Len(mlog)
         /\ mlog[i].arg = mlog[i + 1].arg
         /\ ~mlog[i].file_existed
         /\ mlog[i].entries_before = 0)
          => LET hash == get_module_hash(mlog[i].arg) IN
               /\ ModulePath(hash) \in DOMAIN module_files
               /\ EntriesFor(modules, hash) = 1

\* C6 -- add_module for a module whose hash-named file exists is a no-op: the
\* collection and every file stay as they were and no write is made.
C6_AddExistingModuleNoOp ==
    [][(/\ Len(mlog') = Len(mlog) + 1
        /\ ModulePath(get_module_hash(mlog'[Len(mlog')].arg)) \in DOMAIN module_files)
          => /\ modules' = modules
             /\ module_files' = module_files
             /\ mlog'[Len(mlog')].write = "none"]_vars

\* C6 witness: add_module was called for a module whose file existed while the
\* collection held no entry equal to it.
C6_Witness ==
    /\ Len(mlog) >= 1
    /\ mlog[Len(mlog)].file_existed
    /\ \A i \in DOMAIN modules : modules[i].flatpak_module # mlog[Len(mlog)].arg

----------------------------------------------------------------------------
(* The whole database: Database::get_database, db.rs:22-46, loads the modules
   and then the projects; a panic in either leaves no Database. *)

\* Bound: the number of calls made on a loaded database.
MaxDatabaseCalls == 2

InitDatabase ==
    /\ project_files \in InitDisks
    /\ module_files \in InitModuleDisks
    /\ IF get_all_projects_panics(project_files)
       THEN /\ indexed_projects = << >>
            /\ modules = << >>
            /\ call = Call("load", NoArg, "fatal", {})
       ELSE /\ indexed_projects \in get_indexed_projects(project_files)
            /\ modules \in get_all_modules(module_files)
            /\ call = Call("load", NoArg, "ok", {})
    /\ ncalls = 0
    /\ found = << >>
    /\ mlog = << >>
    /\ IdleMerge
    /\ IdleFormat

DatabaseCanCall == call.result = "ok" /\ ncalls + Len(mlog) < MaxDatabaseCalls

DatabaseAddProject == DatabaseCanCall /\ AddProject
DatabaseUpdateProject == DatabaseCanCall /\ UpdateProject
DatabaseDetectSiblings == DatabaseCanCall /\ DetectSiblings
DatabaseAddModule == DatabaseCanCall /\ AddModule

\* The terms search_projects is called with: the empty string, a character of
\* both names and URLs, a whole URL, the first character of every name, and a
\* character of no string.
SearchTerms == {EmptyStr, <<1>>, Url2, <<9>>, <<7>>}

SearchProjects ==
    /\ DatabaseCanCall
    /\ \E search_term \in SearchTerms :
         /\ found' = search_projects(indexed_projects, search_term)
         /\ call' = Call("search_projects", search_term, "ok", {})
    /\ ncalls' = ncalls + 1
    /\ UNCHANGED <<indexed_projects, project_files, module_vars, merge_vars, format_vars>>

NextDatabase ==
    \/ DatabaseAddProject
    \/ DatabaseUpdateProject
    \/ DatabaseDetectSiblings
    \/ DatabaseAddModule
    \/ SearchProjects

SpecDatabase == InitDatabase /\ [][NextDatabase]_vars

----------------------------------------------------------------------------
(* Claims about load, checked under SpecDatabase. *)

\* The recognised files of a directory that do not decode.
UndecodableProjects(files) ==
    {p \in RecognisedPaths(files) : ~decodes_as_project(files[p])}
UndecodableModules(files) ==
    {p \in RecognisedPaths(files) : ~decodes_as_module(files[p])}

\* No call has been made since load.
JustLoaded == call.op = "load" /\ mlog = << >>

\* C16 -- load asymmetry: when load ends, a recognised project file that does
\* not decode has made it panic and no store was produced; a recognised module
\* file that does not decode has been skipped, and the collection holds one
\* entry for every other recognised module file and nothing else.
C16_LoadAsymmetry ==
    JustLoaded
      => /\ UndecodableProjects(project_files) # {}
              => /\ call.result = "fatal"
                 /\ indexed_projects = << >>
                 /\ modules = << >>
         /\ UndecodableProjects(project_files) = {}
              => /\ call.result = "ok"
                 /\ \A p \in RecognisedPaths(module_files) \
                             UndecodableModules(module_files) :
                      \E i \in DOMAIN modules :
                          encode_module(modules[i]) = module_files[p]
                 /\ Len(modules) = Cardinality(RecognisedPaths(module_files))
                       - Cardinality(UndecodableModules(module_files))

\* C16 witness: load has returned a store although a recognised module file
\* did not decode, and the store holds the module of another file.
C16_Witness ==
    /\ JustLoaded
    /\ call.result = "ok"
    /\ UndecodableModules(module_files) # {}
    /\ Len(modules) >= 1

\* C24 -- a failed file write does not change memory: a call of add_project
\* or update_project whose fs::write fails leaves the index as it was, and a
\* call of add_module whose fs::write fails leaves the modules collection as
\* it was.
C24_FailedWriteKeepsMemory ==
    [][/\ ((IsCall("add_project") \/ IsCall("update_project"))
           /\ \E w \in call'.writes : ~w.ok)
             => indexed_projects' = indexed_projects
       /\ (Len(mlog') = Len(mlog) + 1 /\ mlog'[Len(mlog')].write = "failed")
             => modules' = modules]_vars

\* The project matches term as the claim has it: its name, or some element of
\* vcs_urls, contains the term.
MatchesNameOrAnyVcsUrl(project, term) ==
    \/ Contains(project.name, term)
    \/ \E url \in project.vcs_urls : Contains(url, term)

\* C17 -- search_projects(term) returns exactly the projects whose name or
\* any element of vcs_urls contains term, each once, in ascending order of id.
C17_SearchProjects ==
    call.op = "search_projects"
      => LET matching == {id \in DOMAIN indexed_projects :
                            MatchesNameOrAnyVcsUrl(indexed_projects[id], call.arg)}
             ids == SortedStrs(matching)
         IN  found = [i \in DOMAIN ids |-> indexed_projects[ids[i]]]

----------------------------------------------------------------------------
(* The merge taken alone: its inputs. *)

MergeInputsAre(p, o1, o2) ==
    /\ m_orig = p
    /\ m_self = p
    /\ m_other = o1
    /\ m_other2 = o2

\* A record merged with copies of itself, in every shape.
SelfMergeInputs ==
    \E F \in SUBSET Features :
        MergeInputsAre(ShapeProject(F), ShapeProject(F), ShapeProject(F))

\* Records that differ in their sets, root hashes and identity.
SetMergeInputs ==
    \E S0 \in SUBSET (1..MaxElems), S1 \in SUBSET (1..MaxElems),
       S2 \in SUBSET (1..MaxElems),
       id1 \in {IdA, IdB}, vcs1 \in {Url1, Url2},
       rh0 \in {<< >>, <<Hash1>>}, rh1 \in {<< >>, <<Hash2, Hash1>>} :
        MergeInputsAre(
            VarProject(IdA, Url1, Name1, S0, NoScalars, rh0, None),
            VarProject(id1, vcs1, Name2, S1, NoScalars, rh1, None),
            VarProject(IdA, Url1, Name2, S2, AllScalars(3), <<Hash12>>, None))

\* Records that differ in their scalar fields and siblings; self's scalars
\* are older or newer than other's.
ScalarMergeInputs ==
    \E P0 \in SUBSET ScalarFields, P1 \in SUBSET ScalarFields, v0 \in {1, 3},
       sib0 \in {None, Some({}), Some({IdA, IdB})},
       sib1 \in {None, Some({}), Some({IdA, IdC})} :
        MergeInputsAre(
            VarProject(IdA, Url1, Name1, {1},
                       [f \in ScalarFields |-> IF f \in P0 THEN v0 ELSE 0], << >>, sib0),
            VarProject(IdA, Url1, Name2, {2},
                       [f \in ScalarFields |-> IF f \in P1 THEN 2 ELSE 0], << >>, sib1),
            VarProject(IdA, Url1, Name2, {}, AllScalars(3), << >>, Some({IdC})))

InitMerge ==
    /\ SelfMergeInputs \/ SetMergeInputs \/ ScalarMergeInputs
    /\ m_stage = 0
    /\ m_outcome = "none"
    /\ IdleStore
    /\ IdleModules
    /\ IdleFormat

\* existing.merge(&other); a panic ends the run.
MergeFirst ==
    /\ m_stage = 0
    /\ LET r == merge(m_self, m_other) IN
         /\ m_self' = r.self
         /\ m_outcome' = r.outcome
    /\ m_stage' = 1
    /\ UNCHANGED <<m_orig, m_other, m_other2, store_vars, module_vars, format_vars>>

MergeSecond ==
    /\ m_stage = 1
    /\ m_outcome = "ok"
    /\ LET r == merge(m_self, m_other2) IN
         /\ m_self' = r.self
         /\ m_outcome' = r.outcome
    /\ m_stage' = 2
    /\ UNCHANGED <<m_orig, m_other, m_other2, store_vars, module_vars, format_vars>>

NextMerge == MergeFirst \/ MergeSecond

SpecMerge == InitMerge /\ [][NextMerge]_vars

----------------------------------------------------------------------------
(* Claims about merge, checked under SpecMerge. *)

\* The record the current merge call receives.
MergeArg == IF m_stage = 0 THEN m_other ELSE m_other2

\* C8 -- merge identity guard: a merge call whose two records differ in id
\* ends in the identity-mismatch panic, and no field of either record changes.
C8_MergeIdentityGuard ==
    [][(m_stage' = m_stage + 1 /\ m_self.id # MergeArg.id)
         => /\ m_outcome' = "id_mismatch"
            /\ m_self' = m_self
            /\ m_other' = m_other
            /\ m_other2' = m_other2]_vars

\* C8 witness: a merge refused for its id although the other record shares the
\* VCS URL and carries data self does not have.
C8_Witness ==
    /\ m_stage = 1
    /\ m_outcome = "id_mismatch"
    /\ m_other.vcs_url = m_orig.vcs_url
    /\ ~(m_other.web_urls \subseteq m_orig.web_urls)
    /\ m_orig.root_hashes = << >> /\ m_other.root_hashes # << >>

\* C9 -- merge idempotence: merging a copy of p into p succeeds and leaves
\* every field of p as it was, whatever p's shape; a second copy likewise.
C9_MergeIdempotent ==
    (m_stage >= 1 /\ m_other = m_orig /\ (m_stage = 2 => m_other2 = m_orig))
        => (m_outcome = "ok" /\ m_self = m_orig)

\* C9 witness: a copy was merged into a record with a non-empty set, a set
\* scalar, siblings and root hashes.
C9_Witness ==
    /\ m_stage = 1
    /\ m_other = m_orig
    /\ m_outcome = "ok"
    /\ m_orig.web_urls # {} /\ m_orig.tags # {}
    /\ IsSome(m_orig.description) /\ IsSome(m_orig.siblings)
    /\ m_orig.root_hashes # << >>

\* C19 -- scalar fields are last-writer-wins: after a merge call that
\* succeeds, each of description, last_known_commit, main_branch and
\* last_updated is other's value when other has one, whatever the two values
\* are, and is self's previous value when other has none.
C19_ScalarsLastWriterWins ==
    [][(m_stage' = m_stage + 1 /\ m_outcome' = "ok")
          => \A f \in ScalarFields :
               m_self'[f] = IF IsSome(MergeArg[f]) THEN MergeArg[f] ELSE m_self[f]]_vars

\* C19 witness: a merge has replaced a newer last_updated by an older one and
\* kept a description that other did not carry.
C19_Witness ==
    /\ m_stage = 1
    /\ m_outcome = "ok"
    /\ m_orig.last_updated = Some(<<"last_updated", 3>>)
    /\ m_other.last_updated = Some(<<"last_updated", 2>>)
    /\ m_self.last_updated = m_other.last_updated
    /\ IsSome(m_orig.description)
    /\ ~IsSome(m_other.description)
    /\ m_self.description = m_orig.description

\* C22 -- merge never touches id, name or vcs_url: after a merge call that
\* succeeds, self's id, name and vcs_url are what they were before the call,
\* and other is as it was.
C22_MergeKeepsIdentityFields ==
    [][(m_stage' = m_stage + 1 /\ m_outcome' = "ok")
          => /\ m_self'.id = m_self.id
             /\ m_self'.name = m_self.name
             /\ m_self'.vcs_url = m_self.vcs_url
             /\ m_other' = m_other
             /\ m_other2' = m_other2]_vars

\* C22 witness: a merge has changed self, the two records having different
\* names, and self has kept its own.
C22_Witness ==
    /\ m_stage = 1
    /\ m_outcome = "ok"
    /\ m_other.name # m_orig.name
    /\ m_self # m_orig
    /\ m_self.name = m_orig.name
    /\ m_self.id = m_orig.id
    /\ m_self.vcs_url = m_orig.vcs_url

\* The single record that stands for other1 and other2 together: set fields
\* are the unions, the rest is other1's.
Combined(o1, o2) ==
    [o1 EXCEPT !.web_urls = @ \cup o2.web_urls,
               !.vcs_urls = @ \cup o2.vcs_urls,
               !.build_systems = @ \cup o2.build_systems,
               !.flatpak_app_manifests = @ \cup o2.flatpak_app_manifests,
               !.flatpak_module_manifests = @ \cup o2.flatpak_module_manifests,
               !.flatpak_sources_manifests = @ \cup o2.flatpak_sources_manifests,
               !.tags = @ \cup o2.tags]

SameIdentity(p, q) == p.id = q.id /\ p.vcs_url = q.vcs_url

\* C10 -- merge associativity on the set fields: with one id and VCS URL
\* throughout, merging other1 then other2 into p leaves p's set-valued fields
\* equal to those one merge of the combined record gives.
C10_MergeSetsAssociative ==
    (m_stage = 2 /\ SameIdentity(m_orig, m_other) /\ SameIdentity(m_orig, m_other2))
        => /\ m_outcome = "ok"
           /\ SetsOf(m_self) = SetsOf(merge(m_orig, Combined(m_other, m_other2)).self)

\* C10 witness: two merges done, where other1 and other2 each bring an element
\* the other lacks and p has one of its own.
C10_Witness ==
    /\ m_stage = 2
    /\ m_outcome = "ok"
    /\ ~(m_other.web_urls \subseteq m_other2.web_urls)
    /\ ~(m_other2.web_urls \subseteq m_other.web_urls)
    /\ m_orig.web_urls # {}
    /\ m_self.web_urls = m_orig.web_urls \cup m_other.web_urls \cup m_other2.web_urls

----------------------------------------------------------------------------
(* utils::format_bytes, utils.rs:114-124, taken alone.

   A usize is held as its digits in base 1024, least significant first and
   without leading zeros, since the loop only divides by 1024 and compares
   with 1024.  approximated_bytes is held as the digits of its integer part:
   it is >= 1024.0 exactly when that part has two digits or more.  The
   conversion to f64 is exact below 2^53; from 2^53 on it rounds, to a value
   that is still at least 2^53, so the comparisons of the five iterations the
   loop can make come out as they do on the exact value. *)

\* usize on the 64-bit targets the crate is built for.
UsizeBits == 64
\* The divisor and threshold of the loop, utils.rs:119-121.
Kibi == 1024
\* The bound on i in the loop condition, utils.rs:119.
LoopLimit == 5

\* utils.rs:115 (a Vec is indexed from 0, a sequence from 1).
sizes == <<"B", "KB", "MB", "GB", "TB">>

\* The number of base-1024 digits of usize::MAX, and its top digit.
UsizeDigits == (UsizeBits + 9) \div 10
UsizeTopDigit == 2 ^ (UsizeBits - 10 * (UsizeDigits - 1)) - 1

\* The digits the inputs are built from, and the top digits of an n-digit one.
DigitSamples == {0, 1, Kibi - 1}
TopDigits(n) == IF n = UsizeDigits THEN {1, UsizeTopDigit} ELSE {1, Kibi - 1}

\* The arguments of the doctest, utils.rs:102-113: 100, 23746178,
\* 9823453784599, 7124362542 and 0.
DoctestInputs ==
    {<<100>>, <<642, 661, 22>>, <<535, 586, 823, 956, 8>>, <<302, 329, 650, 6>>, << >>}

\* The arguments format_bytes is called with: values of every digit count a
\* usize can have, up to usize::MAX.
UsizeInputs ==
    DoctestInputs \cup
    UNION {{low \o <<top>> : low \in [1..(n - 1) -> DigitSamples], top \in TopDigits(n)} :
             n \in 1..UsizeDigits}

InitFormat ==
    /\ fb_bytes \in UsizeInputs
    /\ fb_i = 0
    /\ fb_approximated_bytes = fb_bytes
    /\ fb_divisions = 0
    /\ fb_pc = "loop"
    /\ fb_unit = ""
    /\ IdleStore
    /\ IdleModules
    /\ IdleMerge

\* utils.rs:119: the loop condition.
format_bytes_loops == fb_i < LoopLimit /\ Len(fb_approximated_bytes) >= 2

\* utils.rs:120-121: one iteration.
FormatDivide ==
    /\ fb_pc = "loop"
    /\ format_bytes_loops
    /\ fb_i' = fb_i + 1
    /\ fb_approximated_bytes' = Tail(fb_approximated_bytes)
    /\ fb_divisions' = fb_divisions + 1
    /\ UNCHANGED <<fb_bytes, fb_pc, fb_unit, store_vars, module_vars, merge_vars>>

\* utils.rs:123: sizes[i]; an index past the end of the Vec panics.
FormatReturn ==
    /\ fb_pc = "loop"
    /\ ~format_bytes_loops
    /\ IF fb_i + 1 \in DOMAIN sizes
       THEN fb_pc' = "done" /\ fb_unit' = sizes[fb_i + 1]
       ELSE fb_pc' = "panic" /\ fb_unit' = ""
    /\ UNCHANGED <<fb_bytes, fb_i, fb_approximated_bytes, fb_divisions,
                   store_vars, module_vars, merge_vars>>

NextFormat == FormatDivide \/ FormatReturn

SpecFormat == InitFormat /\ [][NextFormat]_vars

----------------------------------------------------------------------------
(* Claims about format_bytes, checked under SpecFormat. *)

\* C23 -- format_bytes picks its unit from the five-entry list for every
\* usize: when the call ends, it has returned, the index is between 0 and 4
\* and equals the number of divisions made, and the unit is the entry of the
\* list at that index.
C23_FormatBytesUnitIndex ==
    fb_pc \in {"done", "panic"}
      => /\ fb_pc = "done"
         /\ fb_i \in 0..4
         /\ fb_i = fb_divisions
         /\ fb_unit = sizes[fb_i + 1]

====
